---- MODULE Spec2Model ----
(***************************************************************************)
(* State-machine model of the real-time map client (App, LiveMap, socket). *)
(* State: the React state and refs of App, the viewport state of LiveMap,  *)
(* the platform geolocation watches and one-shot requests, and the clock   *)
(* read by Date.now().  One action per handler, effect or callback.        *)
(***************************************************************************)
EXTENDS Integers, Sequences, FiniteSets, TLC

\* ------------------------------------------------------------------ bounds

\* Longest users:update payload with repeated ids drawn by the roster specification
\* (duplicate-free payloads are drawn at every length).
MaxRoster == 3
\* Longest users:update payload drawn by the focus specification.
MaxFocusRoster == 1
\* Number of focusOnUser invocations explored.
MaxSelect == 2
\* Number of clock advances explored.
MaxTicks == 2

\* Number of manual retries explored by the geolocation specification.
MaxRetries == 2
\* Number of manual retries explored by the throttle specification.
MaxThrottleRetries == 1

\* Participant ids (socket ids).
Ids == {"A", "B", "C", "D"}
\* Ids the connection identity is drawn from in the focus specification.
FocusIds == {"A", "B"}
\* Coordinate pairs (lat, lng), abstracted to tokens.
Positions == {1, 2}
\* null / undefined, for a state that holds a string
Null == "null"
\* null / undefined, for a state that holds an object or a number: None, or Some(x)
None == <<>>
Some(x) == <<x>>
\* Clock advances between two handlers (ms).
TickDeltas == {500, 1500, 2100}
\* Clock advances between two handlers in the focus specification (ms).
FocusTickDeltas == {500}
\* if (now - lastSentAt.current < 2000) return;
ThrottleMs == 2000
\* let watchId = -1
NoWatch == -1
\* startWatch(true, 20000, 3000)
HighTimeout == 20000
HighMaximumAge == 3000
\* startWatch(false, 30000, 15000)
FallbackTimeout == 30000
FallbackMaximumAge == 15000
\* GeolocationPositionError codes
PermissionDenied == 1
PositionUnavailable == 2
Timeout == 3
ErrorCodes == {PermissionDenied, PositionUnavailable, Timeout}
\* navigator.geolocation present and window.isSecureContext, or which of them is missing
Envs == {"ok", "unsupported", "insecure"}
\* useState({ center: initialCenter, zoom: 13, ... })
InitialZoom == 13
\* zoom: Math.max(v.zoom, 15)
FocusZoom == 15
\* defaultCenter (Maputo), a coordinate pair outside Positions
DefaultCenter == 0
\* Zoom levels the user can set through the map controls.
UserZooms == {11, 17}
\* A bearing and a pitch the user can set by rotating and tilting the map.
UserBearing == 90
UserPitch == 45
\* users:update payloads that fail Array.isArray: null and a plain object
NonArrayPayloads == {"null", "object"}

\* -------------------------------------------------------------- variables

VARIABLES
    users,            \* useState<LiveUser[]>: the roster, a sequence of [id, pos]
    userOrder,        \* useState<string[]>: the Display Order
    orderPending,     \* the [users] effect has not yet run for the stored roster
    prevOrder,        \* the `prev` the updater was given for the stored roster (Null: not yet run)
    lastArray,        \* history: the most recent users:update payload that was an array
    lastWasArray,     \* history: the most recent users:update payload was an array
    cfgUrl,           \* import.meta.env.VITE_SOCKET_URL: None (unset) or Some(configured value)
    page,             \* the address the page was loaded from (window.location)
    socketUrl,        \* the URL given to io(): None until socket.ts is evaluated
    isSocketConnected,\* useState(socket.connected)
    socketId,         \* socket.id (Null while disconnected)
    focusedUserId,    \* useState<string | null>
    mapFocusTarget,   \* useState<MapFocusTarget | null>: Some([pos, key]) or None
    viewport,         \* LiveMap useState: [center, zoom, bearing, pitch]
    focusDepKey,      \* focusTarget?.key seen by the last run of LiveMap's effect
    selectCalls,      \* number of focusOnUser invocations
    lastSelectId,     \* user.id of the last focusOnUser invocation
    emitted,          \* number of setMapFocusTarget calls (Focus Targets emitted)
    recenters,        \* number of camera transitions made by LiveMap's focus effect
    env,              \* the platform: "ok", "unsupported" (no navigator.geolocation), "insecure"
    mounted,          \* the App component is mounted: its effects' cleanups have not run
    retryCalls,       \* history: parity of the number of retryGeolocation invocations
    geoError,         \* useState<string | null>
    me,               \* useState<LocationUpdate | null>: Some(pos) or None
    geoRetryNonce,    \* useState(0)
    geoEffectDep,     \* geoRetryNonce seen by the last run of the geolocation effect
    isGeoRetrying,    \* useState(false)
    geoRetryTimeoutRef, \* useRef<number | null>: Some(timer id) or None
    timers,           \* pending window.setTimeout timers
    watchId,          \* let watchId of the current activation
    fallbackMode,     \* let fallbackMode of the current activation
    activeWatches,    \* the platform's active watchPosition handles, with their options
    nextWatchId,      \* the next handle watchPosition returns
    oneShots,         \* getCurrentPosition requests not yet settled
    lastSentAt,       \* useRef(0)
    sent,             \* the location:update messages emitted, with the clock read at emission
    lastEvent,        \* the geolocation result delivered last: [src, kind, code, pos]
    delivered,        \* parity of the number of geolocation results delivered
    downgrades,       \* fallback restarts made by the current activation
    now,              \* Date.now()
    ticks             \* number of clock advances so far

inboxVars == <<lastArray, lastWasArray>>
rosterVars == <<users, userOrder, orderPending, prevOrder, inboxVars>>
urlVars == <<cfgUrl, page, socketUrl>>
socketVars == <<isSocketConnected, socketId, urlVars>>
focusVars == <<focusedUserId, mapFocusTarget, viewport, focusDepKey,
               selectCalls, lastSelectId, emitted, recenters>>
retryVars == <<geoRetryNonce, isGeoRetrying, geoRetryTimeoutRef, timers, oneShots>>
watchVars == <<geoEffectDep, watchId, fallbackMode, activeWatches, nextWatchId, downgrades>>
sendVars == <<lastSentAt, sent>>
eventVars == <<lastEvent, delivered>>
geoVars == <<env, mounted, retryCalls, geoError, me, retryVars, watchVars, sendVars, eventVars>>
clockVars == <<now, ticks>>
vars == <<rosterVars, socketVars, focusVars, geoVars, clockVars>>

\* ------------------------------------------------------ pure: reconciliation

\* users.map((u) => u.id)
IdsOf(us) == {us[i].id : i \in 1..Len(us)}

\* prev.filter((id) => activeIds.has(id))
Kept(prev, us) == SelectSeq(prev, LAMBDA id : id \in IdsOf(us))

\* new Set(kept), mutated: the set starts empty.
Known_empty(kept) == {}

\* new Set(kept)
Known(kept) == {kept[i] : i \in 1..Len(kept)}

\* the additions loop, mutated: known.add(user.id) is missing.
RECURSIVE Additions_noAdd(_, _, _)
Additions_noAdd(us, i, known) ==
    IF i > Len(us) THEN <<>>
    ELSE IF us[i].id \in known THEN Additions_noAdd(us, i + 1, known)
    ELSE <<us[i].id>> \o Additions_noAdd(us, i + 1, known)

\* for (const user of users) { if (known.has(user.id)) continue; additions.push; known.add }
RECURSIVE Additions(_, _, _)
Additions(us, i, known) ==
    IF i > Len(us) THEN <<>>
    ELSE IF us[i].id \in known THEN Additions(us, i + 1, known)
    ELSE <<us[i].id>> \o Additions(us, i + 1, known \cup {us[i].id})

\* the updater, mutated: additions are placed before the retained ids.
Reconcile_additionsFirst(prev, us) ==
    Additions(us, 1, Known(Kept(prev, us))) \o Kept(prev, us)

\* the setUserOrder updater: [...kept, ...additions]
Reconcile(prev, us) ==
    Kept(prev, us) \o Additions(us, 1, Known(Kept(prev, us)))

\* byId.get(id) for an id of the roster: new Map(users.map(...)) keeps the last
\* entry of an id
ById(us, id) ==
    us[CHOOSE i \in 1..Len(us) : us[i].id = id /\ \A j \in (i + 1)..Len(us) : us[j].id # id]

\* userOrder.map((id) => byId.get(id)).filter(Boolean)
OrderedKnown(us, order) ==
    LET present == SelectSeq(order, LAMBDA id : id \in IdsOf(us))
    IN [i \in 1..Len(present) |-> ById(us, present[i])]

\* orderedUsers, mutated: the participants missing from the Display Order are
\* not appended.
OrderedUsers_noAppend(us, order) == OrderedKnown(us, order)

\* orderedUsers = useMemo(..., [users, userOrder])
OrderedUsers(us, order) ==
    LET ordered == OrderedKnown(us, order)
        existing == IdsOf(ordered)
    IN IF Len(ordered) = Len(us) THEN ordered
       ELSE ordered \o SelectSeq(us, LAMBDA u : u.id \notin existing)

\* ------------------------------------------------ pure: endpoint resolution

\* Strings are sequences of tokens. Hosts: three loopback addresses, a public name
\* and a LAN address.
Addresses ==
    {[kind |-> "name", text |-> "localhost"],
     [kind |-> "ipv4", text |-> "127.0.0.1"],
     [kind |-> "ipv6", text |-> "::1"],
     [kind |-> "name", text |-> "api.example.com"],
     [kind |-> "ipv4", text |-> "192.168.1.20"]}

\* the host as a URL carries it and as the URL parser serialises it: an IPv6
\* address stands in brackets
WrittenHost(addr) ==
    IF addr.kind = "ipv6" THEN <<"[", addr.text, "]">> ELSE <<addr.text>>

\* window.location.origin
Origin(addr) == <<"http://">> \o WrittenHost(addr) \o <<":5173">>

\* window.location.hostname
LocationHostname(addr) == WrittenHost(addr)

\* a configured value that is an absolute URL of a backend at `addr`
UrlText(addr) == <<"http://">> \o WrittenHost(addr) \o <<":3001">>

\* a configured value that names the host alone, without a scheme
BareText(addr) == WrittenHost(addr)

\* The text of a configured value [form, addr, padded]; a padded value has white
\* space around it, a blank one is empty or white space only.
RawText(cfg) ==
    LET body == IF cfg.form = "url" THEN UrlText(cfg.addr)
                ELSE IF cfg.form = "bare" THEN BareText(cfg.addr)
                ELSE <<>>
    IN IF cfg.padded THEN <<" ">> \o body \o <<" ">> ELSE body

RECURSIVE TrimStart(_)
TrimStart(t) == IF t # <<>> /\ Head(t) = " " THEN TrimStart(Tail(t)) ELSE t

RECURSIVE TrimEnd(_)
TrimEnd(t) ==
    IF t # <<>> /\ t[Len(t)] = " " THEN TrimEnd(SubSeq(t, 1, Len(t) - 1)) ELSE t

\* String.prototype.trim
Trim(t) == TrimEnd(TrimStart(t))

\* new URL(text): None when it throws (no scheme), else the parsed URL with its
\* hostname (the serialised host, without the port) and its toString()
ParseUrl(t) ==
    IF Len(t) >= 3 /\ t[1] = "http://"
    THEN Some([hostname |-> SubSeq(t, 2, Len(t) - 1), href |-> t \o <<"/">>])
    ELSE None

\* resolveSocketUrl(), in a browser
ResolveSocketUrl(configured, pageAddr) ==
    LET envUrl == IF configured = None THEN None ELSE Some(Trim(RawText(configured[1])))
        fallbackUrl == Origin(pageAddr)
    IN IF envUrl = None \/ envUrl[1] = <<>> THEN fallbackUrl
       ELSE LET parsed == ParseUrl(envUrl[1])
            IN IF parsed = None THEN envUrl[1]
               ELSE LET isLocalhost == \/ parsed[1].hostname = <<"localhost">>
                                       \/ parsed[1].hostname = <<"127.0.0.1">>
                                       \/ parsed[1].hostname = <<"::1">>
                    IN IF /\ isLocalhost
                          /\ LocationHostname(pageAddr) # <<"localhost">>
                          /\ LocationHostname(pageAddr) # <<"127.0.0.1">>
                       THEN Origin(pageAddr)
                       ELSE parsed[1].href

\* ---------------------------------------------------------------- inputs

\* the values VITE_SOCKET_URL can have
Configs ==
    {None} \cup {Some(c) : c \in [form : {"url", "bare"}, addr : Addresses, padded : BOOLEAN]}
           \cup {Some([form |-> "blank", addr |-> a, padded |-> b]) :
                     a \in {[kind |-> "name", text |-> "localhost"]}, b \in BOOLEAN}

\* the page of the development server, opened on the machine it runs on
LocalPage == [kind |-> "name", text |-> "localhost"]

RECURSIVE SeqsUpTo(_, _)
SeqsUpTo(S, n) ==
    IF n = 0 THEN {<<>>}
    ELSE LET shorter == SeqsUpTo(S, n - 1)
         IN shorter \cup {Append(s, x) : s \in {t \in shorter : Len(t) = n - 1}, x \in S}

User(id, pos) == [id |-> id, pos |-> pos]

IsDuplicateFree(s) == \A i, j \in 1..Len(s) : s[i] = s[j] => i = j

\* users:update payloads of the roster specification: every payload of at most
\* MaxRoster entries (repeated ids included) and every duplicate-free payload.
OrderPayloads ==
    LET entries == {User(id, 1) : id \in Ids}
    IN SeqsUpTo(entries, MaxRoster)
         \cup {s \in SeqsUpTo(entries, Cardinality(Ids)) : IsDuplicateFree(s)}

\* users:update payloads of the focus specification.
FocusPayloads == SeqsUpTo({User(id, p) : id \in FocusIds, p \in Positions}, MaxFocusRoster)

\* Snapshots for a whole session: rosters of up to MaxFocusRoster participants, all
\* at one position.
SessionPayloads == SeqsUpTo({User(id, 1) : id \in FocusIds}, MaxFocusRoster)

\* ------------------------------------------------------------------ Init

\* getInitialGeoError()
GetInitialGeoError(e) ==
    IF e = "unsupported" THEN "unsupported"
    ELSE IF e = "insecure" THEN "insecure"
    ELSE Null

NoEvent == [src |-> "none", kind |-> "none", code |-> 0, pos |-> 0]

InitApp(e) ==
    /\ users = <<>>
    /\ userOrder = <<>>
    /\ orderPending = TRUE
    /\ prevOrder = Null
    /\ lastArray = None
    /\ lastWasArray = TRUE
    /\ isSocketConnected = FALSE
    /\ socketId = Null
    /\ focusedUserId = Null
    /\ mapFocusTarget = None
    /\ viewport = [center |-> DefaultCenter, zoom |-> InitialZoom, bearing |-> 0, pitch |-> 0]
    /\ focusDepKey = None
    /\ selectCalls = 0
    /\ lastSelectId = Null
    /\ emitted = 0
    /\ recenters = 0
    /\ env = e
    /\ mounted = TRUE
    /\ retryCalls = 0
    /\ geoError = GetInitialGeoError(e)
    /\ me = None
    /\ geoRetryNonce = 0
    /\ geoEffectDep = None
    /\ isGeoRetrying = FALSE
    /\ geoRetryTimeoutRef = None
    /\ timers = {}
    /\ watchId = NoWatch
    /\ fallbackMode = FALSE
    /\ activeWatches = {}
    /\ nextWatchId = 1
    /\ oneShots = {}
    /\ lastSentAt = 0
    /\ sent = <<>>
    /\ lastEvent = NoEvent
    /\ delivered = 0
    /\ downgrades = 0
    /\ now = ThrottleMs
    /\ ticks = 0

\* socket.ts has been evaluated on the local page with no backend URL configured,
\* and the App component is constructed on platform e
InitEnv(e) ==
    /\ InitApp(e)
    /\ cfgUrl = None
    /\ page = LocalPage
    /\ socketUrl = Some(ResolveSocketUrl(None, LocalPage))

\* the page is loaded from any address with any configured value; socket.ts has not
\* been evaluated yet
InitUrl ==
    /\ InitApp("ok")
    /\ cfgUrl \in Configs
    /\ page \in Addresses
    /\ socketUrl = None

\* the page in a browser with geolocation, loaded in a secure context
Init == InitEnv("ok")

\* the page on any platform
InitAnyEnv == \E e \in Envs : InitEnv(e)

\* --------------------------------------------------------------- actions

\* users:update with an array payload, mutated: the focus is cleared when the
\* snapshot omits the focused participant.
UsersUpdate_dropsFocus(payload) ==
    /\ users' = payload
    /\ orderPending' = TRUE
    /\ prevOrder' = Null
    /\ lastArray' = Some(payload)
    /\ lastWasArray' = TRUE
    /\ IF focusedUserId \in IdsOf(payload)
       THEN UNCHANGED <<focusedUserId, mapFocusTarget>>
       ELSE focusedUserId' = Null /\ mapFocusTarget' = None
    /\ UNCHANGED <<userOrder, socketVars, viewport, focusDepKey, selectCalls, lastSelectId,
                   emitted, recenters, geoVars, clockVars>>

\* users:update with an array payload, mutated: the snapshot is merged into the
\* roster, participants absent from it are kept.
UsersUpdate_merge(payload) ==
    /\ users' = payload \o SelectSeq(users, LAMBDA u : u.id \notin IdsOf(payload))
    /\ orderPending' = TRUE
    /\ prevOrder' = Null
    /\ lastArray' = Some(payload)
    /\ lastWasArray' = TRUE
    /\ UNCHANGED <<userOrder, socketVars, focusVars, geoVars, clockVars>>

\* socket.on("users:update", handler) with an array payload
UsersUpdate(payload) ==
    /\ users' = payload
    /\ orderPending' = TRUE
    /\ prevOrder' = Null
    /\ lastArray' = Some(payload)
    /\ lastWasArray' = TRUE
    /\ UNCHANGED <<userOrder, socketVars, focusVars, geoVars, clockVars>>

\* users:update with a payload that is not an array, mutated: the payload is taken
\* for an empty roster.
UsersUpdateDiscard_empty(payload) ==
    /\ users' = <<>>
    /\ orderPending' = TRUE
    /\ prevOrder' = Null
    /\ lastWasArray' = FALSE
    /\ UNCHANGED <<userOrder, lastArray, socketVars, focusVars, geoVars, clockVars>>

\* socket.on("users:update", handler) with a payload that is not an array:
\* if (!Array.isArray(payload)) return
UsersUpdateDiscard(payload) ==
    /\ lastWasArray' = FALSE
    /\ UNCHANGED <<users, userOrder, orderPending, prevOrder, lastArray,
                   socketVars, focusVars, geoVars, clockVars>>

\* useEffect(() => setUserOrder((prev) => ...), [users])
ReconcileEffect ==
    /\ orderPending
    /\ userOrder' = Reconcile(userOrder, users)
    /\ prevOrder' = userOrder
    /\ orderPending' = FALSE
    /\ UNCHANGED <<users, inboxVars, socketVars, focusVars, geoVars, clockVars>>

\* Date.now() advances between two handlers
Tick(d) ==
    /\ ticks < MaxTicks
    /\ now' = now + d
    /\ ticks' = ticks + 1
    /\ UNCHANGED <<rosterVars, socketVars, focusVars, geoVars>>

\* socket.ts is evaluated: io(resolveSocketUrl(), ...)
CreateSocket ==
    /\ socketUrl = None
    /\ socketUrl' = Some(ResolveSocketUrl(cfgUrl, page))
    /\ UNCHANGED <<cfgUrl, page, isSocketConnected, socketId, rosterVars, focusVars,
                   geoVars, clockVars>>

\* socket "connect": the server assigns the connection identity
Connect(id) ==
    /\ socketUrl # None
    /\ socketId = Null
    /\ socketId' = id
    /\ isSocketConnected' = TRUE
    /\ UNCHANGED <<urlVars, rosterVars, focusVars, geoVars, clockVars>>

\* socket "disconnect", mutated: the roster is emptied with the connection.
Disconnect_clearsRoster ==
    /\ socketId # Null
    /\ socketId' = Null
    /\ isSocketConnected' = FALSE
    /\ users' = <<>>
    /\ orderPending' = TRUE
    /\ prevOrder' = Null
    /\ UNCHANGED <<urlVars, userOrder, inboxVars, focusVars, geoVars, clockVars>>

\* socket "disconnect"
Disconnect ==
    /\ socketId # Null
    /\ socketId' = Null
    /\ isSocketConnected' = FALSE
    /\ UNCHANGED <<urlVars, rosterVars, focusVars, geoVars, clockVars>>

\* focusTarget?.key
KeyOf(target) == IF target = None THEN None ELSE Some(target[1].key)

\* LiveMap's effect has a changed dependency and has not yet run
FocusEffectPending == KeyOf(mapFocusTarget) # focusDepKey

\* focusOnUser, mutated: the socket.id guard is missing.
FocusOnUser_noGuard(user) ==
    /\ ~FocusEffectPending
    /\ selectCalls < MaxSelect
    /\ selectCalls' = selectCalls + 1
    /\ lastSelectId' = user.id
    /\ focusedUserId' = user.id
    /\ mapFocusTarget' = Some([pos |-> user.pos, key |-> now])
    /\ emitted' = emitted + 1
    /\ UNCHANGED <<rosterVars, socketVars, viewport, focusDepKey, recenters, geoVars, clockVars>>

\* focusOnUser(user), from a marker click or a list button
FocusOnUser(user) ==
    /\ ~FocusEffectPending
    /\ selectCalls < MaxSelect
    /\ selectCalls' = selectCalls + 1
    /\ lastSelectId' = user.id
    /\ IF user.id = socketId
       THEN UNCHANGED <<focusedUserId, mapFocusTarget, emitted>>
       ELSE /\ focusedUserId' = user.id
            /\ mapFocusTarget' = Some([pos |-> user.pos, key |-> now])
            /\ emitted' = emitted + 1
    /\ UNCHANGED <<rosterVars, socketVars, viewport, focusDepKey, recenters, geoVars, clockVars>>

Max(a, b) == IF a >= b THEN a ELSE b

\* LiveMap's focus effect, mutated: the zoom is set to 15 whatever it was.
FocusEffect_fixedZoom ==
    /\ FocusEffectPending
    /\ focusDepKey' = KeyOf(mapFocusTarget)
    /\ IF mapFocusTarget = None
       THEN UNCHANGED <<viewport, recenters>>
       ELSE /\ viewport' = [viewport EXCEPT !.center = mapFocusTarget[1].pos,
                                             !.zoom = FocusZoom]
            /\ recenters' = recenters + 1
    /\ UNCHANGED <<rosterVars, socketVars, focusedUserId, mapFocusTarget,
                   selectCalls, lastSelectId, emitted, geoVars, clockVars>>

\* LiveMap: useEffect(() => { if (!focusTarget) return; setViewport(...) }, [focusTarget?.key])
FocusEffect ==
    /\ FocusEffectPending
    /\ focusDepKey' = KeyOf(mapFocusTarget)
    /\ IF mapFocusTarget = None
       THEN UNCHANGED <<viewport, recenters>>
       ELSE /\ viewport' = [viewport EXCEPT !.center = mapFocusTarget[1].pos,
                                             !.zoom = Max(viewport.zoom, FocusZoom)]
            /\ recenters' = recenters + 1
    /\ UNCHANGED <<rosterVars, socketVars, focusedUserId, mapFocusTarget,
                   selectCalls, lastSelectId, emitted, geoVars, clockVars>>

\* LiveMap: onViewportChange={setViewport}, the user pans or zooms the map
ViewportChange(center, zoom) ==
    /\ ~FocusEffectPending
    /\ viewport' = [viewport EXCEPT !.center = center, !.zoom = zoom]
    /\ UNCHANGED <<rosterVars, socketVars, focusedUserId, mapFocusTarget, focusDepKey,
                   selectCalls, lastSelectId, emitted, recenters, geoVars, clockVars>>

\* LiveMap: onViewportChange={setViewport}, the user rotates and tilts the map
ViewportRotate(bearing, pitch) ==
    /\ ~FocusEffectPending
    /\ viewport' = [viewport EXCEPT !.bearing = bearing, !.pitch = pitch]
    /\ UNCHANGED <<rosterVars, socketVars, focusedUserId, mapFocusTarget, focusDepKey,
                   selectCalls, lastSelectId, emitted, recenters, geoVars, clockVars>>

\* ------------------------------------------------------------ geolocation

\* geolocationErrorMessage(err)
GeolocationErrorMessage(code) ==
    IF code = PermissionDenied THEN "denied"
    ELSE IF code = PositionUnavailable THEN "unavailable"
    ELSE IF code = Timeout THEN "timeout"
    ELSE "other"

\* setGeoError("Timeout expired. A tentar modo de localização padrão...")
FallbackNotice == "fallbackNotice"

\* navigator.geolocation.watchPosition(success, error, { enableHighAccuracy, maximumAge, timeout })
NewWatch(enableHighAccuracy, timeout, maximumAge) ==
    [id |-> nextWatchId, enableHighAccuracy |-> enableHighAccuracy,
     timeout |-> timeout, maximumAge |-> maximumAge]

\* clearWatch, mutated: the handle is not released.
ClearWatch_none(watches, id) == watches

\* navigator.geolocation.clearWatch(id)
ClearWatch(watches, id) == {w \in watches : w.id # id}

\* if (geoRetryTimeoutRef.current !== null) { window.clearTimeout(...); ... = null }
ClearRetryTimeout ==
    /\ timers' = IF geoRetryTimeoutRef = None THEN timers
                 ELSE timers \ {geoRetryTimeoutRef[1]}
    /\ geoRetryTimeoutRef' = None

\* the geolocation effect has a changed dependency and has not yet run
GeoEffectPending == geoEffectDep # Some(geoRetryNonce)

\* the effect's guard, mutated: observation starts whatever the platform.
CanWatch_always(e) == TRUE

\* the effect's guard: navigator.geolocation && window.isSecureContext
CanWatch(e) == e = "ok"

\* canRetryGeo
CanRetryGeo(e) == e = "ok"

\* the geolocation effect, mutated: the previous run's cleanup is missing.
GeoEffect_noCleanup ==
    /\ GeoEffectPending
    /\ geoEffectDep' = Some(geoRetryNonce)
    /\ IF CanWatch(env)
       THEN /\ activeWatches' = activeWatches \cup {NewWatch(TRUE, HighTimeout, HighMaximumAge)}
            /\ watchId' = nextWatchId
            /\ nextWatchId' = nextWatchId + 1
            /\ fallbackMode' = FALSE
            /\ downgrades' = 0
       ELSE UNCHANGED <<watchId, fallbackMode, activeWatches, nextWatchId, downgrades>>
    /\ UNCHANGED <<rosterVars, socketVars, focusVars, env, mounted, retryCalls, geoError, me, retryVars,
                   sendVars, eventVars, clockVars>>

\* useEffect(() => { ...; startWatch(true, 20000, 3000); return cleanup }, [geoRetryNonce])
GeoEffect ==
    /\ GeoEffectPending
    /\ geoEffectDep' = Some(geoRetryNonce)
    /\ IF CanWatch(env)
       THEN LET cleaned == IF geoEffectDep # None /\ watchId # NoWatch
                           THEN ClearWatch(activeWatches, watchId)
                           ELSE activeWatches
            IN /\ activeWatches' = cleaned \cup {NewWatch(TRUE, HighTimeout, HighMaximumAge)}
               /\ watchId' = nextWatchId
               /\ nextWatchId' = nextWatchId + 1
               /\ fallbackMode' = FALSE
               /\ downgrades' = 0
       ELSE UNCHANGED <<watchId, fallbackMode, activeWatches, nextWatchId, downgrades>>
    /\ UNCHANGED <<rosterVars, socketVars, focusVars, env, mounted, retryCalls, geoError, me, retryVars,
                   sendVars, eventVars, clockVars>>

\* the throttle, mutated: every sample is emitted.
ThrottledEmit_always(pos) ==
    /\ lastSentAt' = now
    /\ sent' = Append(sent, [at |-> now, pos |-> pos])

\* the throttle of the watch callback: if (now - lastSentAt.current < 2000) return; ...emit
ThrottledEmit(pos) ==
    IF now - lastSentAt < ThrottleMs
    THEN UNCHANGED sendVars
    ELSE /\ lastSentAt' = now
         /\ sent' = Append(sent, [at |-> now, pos |-> pos])

\* history: the callback delivered last, with the error code or the sample's position
Deliver(src, kind, code, pos) ==
    /\ lastEvent' = [src |-> src, kind |-> kind, code |-> code, pos |-> pos]
    /\ delivered' = 1 - delivered

\* watchPosition success callback, mutated: the local position is set after the
\* throttle's early return, so a suppressed sample does not reach it.
WatchSuccess_meWhenSent(w, pos) ==
    /\ ~GeoEffectPending
    /\ w \in activeWatches
    /\ me' = IF now - lastSentAt < ThrottleMs THEN me ELSE Some(pos)
    /\ geoError' = Null
    /\ isGeoRetrying' = FALSE
    /\ ClearRetryTimeout
    /\ ThrottledEmit(pos)
    /\ Deliver("watch", "success", 0, pos)
    /\ UNCHANGED <<rosterVars, socketVars, focusVars, env, mounted, retryCalls, geoRetryNonce, oneShots,
                   watchVars, clockVars>>

\* watchPosition success callback
WatchSuccess(w, pos) ==
    /\ ~GeoEffectPending
    /\ w \in activeWatches
    /\ me' = Some(pos)
    /\ geoError' = Null
    /\ isGeoRetrying' = FALSE
    /\ ClearRetryTimeout
    /\ ThrottledEmit(pos)
    /\ Deliver("watch", "success", 0, pos)
    /\ UNCHANGED <<rosterVars, socketVars, focusVars, env, mounted, retryCalls, geoRetryNonce, oneShots,
                   watchVars, clockVars>>

\* watchPosition error callback, mutated: fallbackMode is never set.
WatchError_noFlag(w, code) ==
    /\ ~GeoEffectPending
    /\ w \in activeWatches
    /\ Deliver("watch", "error", code, 0)
    /\ IF code = Timeout /\ ~fallbackMode
       THEN /\ geoError' = FallbackNotice
            /\ activeWatches' = ClearWatch(activeWatches, watchId)
                                  \cup {NewWatch(FALSE, FallbackTimeout, FallbackMaximumAge)}
            /\ watchId' = nextWatchId
            /\ nextWatchId' = nextWatchId + 1
            /\ downgrades' = downgrades + 1
            /\ UNCHANGED <<retryVars, geoEffectDep, fallbackMode>>
       ELSE /\ geoError' = GeolocationErrorMessage(code)
            /\ isGeoRetrying' = FALSE
            /\ ClearRetryTimeout
            /\ UNCHANGED <<geoRetryNonce, oneShots, watchVars>>
    /\ UNCHANGED <<rosterVars, socketVars, focusVars, env, mounted, retryCalls, me, sendVars, clockVars>>

\* watchPosition error callback
WatchError(w, code) ==
    /\ ~GeoEffectPending
    /\ w \in activeWatches
    /\ Deliver("watch", "error", code, 0)
    /\ IF code = Timeout /\ ~fallbackMode
       THEN /\ fallbackMode' = TRUE
            /\ geoError' = FallbackNotice
            /\ activeWatches' = ClearWatch(activeWatches, watchId)
                                  \cup {NewWatch(FALSE, FallbackTimeout, FallbackMaximumAge)}
            /\ watchId' = nextWatchId
            /\ nextWatchId' = nextWatchId + 1
            /\ downgrades' = downgrades + 1
            /\ UNCHANGED <<retryVars, geoEffectDep>>
       ELSE /\ geoError' = GeolocationErrorMessage(code)
            /\ isGeoRetrying' = FALSE
            /\ ClearRetryTimeout
            /\ UNCHANGED <<geoRetryNonce, oneShots, watchVars>>
    /\ UNCHANGED <<rosterVars, socketVars, focusVars, env, mounted, retryCalls, me, sendVars, clockVars>>

\* the retry button is rendered: geoError && canRetryGeo
RetryButtonRendered == mounted /\ geoError # Null /\ CanRetryGeo(env)

\* the retry button is rendered (geoError && canRetryGeo) and not disabled
RetryButtonEnabled == mounted /\ geoError # Null /\ CanRetryGeo(env) /\ ~isGeoRetrying

\* retryGeolocation()
RetryGeolocation ==
    /\ ~GeoEffectPending
    /\ IF isGeoRetrying
       THEN UNCHANGED <<geoError, retryVars>>
       ELSE IF GetInitialGeoError(env) # Null
       THEN /\ geoError' = GetInitialGeoError(env)
            /\ UNCHANGED retryVars
       ELSE /\ isGeoRetrying' = TRUE
            /\ geoRetryNonce' = geoRetryNonce + 1
            /\ oneShots' = oneShots \cup {[id |-> geoRetryNonce + 1, phase |-> "pending", code |-> 0]}
            /\ timers' = timers \cup {geoRetryNonce + 1}
            /\ geoRetryTimeoutRef' = Some(geoRetryNonce + 1)
            /\ UNCHANGED geoError
    /\ retryCalls' = 1 - retryCalls
    /\ UNCHANGED <<rosterVars, socketVars, focusVars, env, mounted, me, watchVars, sendVars,
                   eventVars, clockVars>>

\* getCurrentPosition success callback, mutated: the position is emitted unthrottled.
OneShotSuccess_bypass(r, pos) ==
    /\ mounted
    /\ ~GeoEffectPending
    /\ r \in oneShots /\ r.phase = "pending"
    /\ oneShots' = oneShots \ {r}
    /\ me' = Some(pos)
    /\ geoError' = Null
    /\ lastSentAt' = now
    /\ sent' = Append(sent, [at |-> now, pos |-> pos])
    /\ isGeoRetrying' = FALSE
    /\ ClearRetryTimeout
    /\ Deliver("oneShot", "success", 0, pos)
    /\ UNCHANGED <<rosterVars, socketVars, focusVars, env, mounted, retryCalls, geoRetryNonce, watchVars, clockVars>>

\* getCurrentPosition success callback
OneShotSuccess(r, pos) ==
    /\ mounted
    /\ ~GeoEffectPending
    /\ r \in oneShots /\ r.phase = "pending"
    /\ oneShots' = oneShots \ {r}
    /\ me' = Some(pos)
    /\ geoError' = Null
    /\ ThrottledEmit(pos)
    /\ isGeoRetrying' = FALSE
    /\ ClearRetryTimeout
    /\ Deliver("oneShot", "success", 0, pos)
    /\ UNCHANGED <<rosterVars, socketVars, focusVars, env, mounted, retryCalls, geoRetryNonce, watchVars, clockVars>>

\* getCurrentPosition error callback, up to `await isGeolocationBlockedByBrowser()`
OneShotError(r, code) ==
    /\ mounted
    /\ ~GeoEffectPending
    /\ r \in oneShots /\ r.phase = "pending"
    /\ oneShots' = (oneShots \ {r}) \cup {[r EXCEPT !.phase = "awaiting", !.code = code]}
    /\ Deliver("oneShot", "error", code, 0)
    /\ UNCHANGED <<rosterVars, socketVars, focusVars, env, mounted, retryCalls, geoError, me, geoRetryNonce,
                   isGeoRetrying, geoRetryTimeoutRef, timers, watchVars, sendVars, clockVars>>

\* getCurrentPosition error callback, after the await
OneShotErrorResume(r, blocked) ==
    /\ mounted
    /\ ~GeoEffectPending
    /\ r \in oneShots /\ r.phase = "awaiting"
    /\ oneShots' = oneShots \ {r}
    /\ geoError' = IF blocked THEN "blocked" ELSE GeolocationErrorMessage(r.code)
    /\ isGeoRetrying' = FALSE
    /\ UNCHANGED <<rosterVars, socketVars, focusVars, env, mounted, retryCalls, me, geoRetryNonce,
                   geoRetryTimeoutRef, timers, watchVars, sendVars, eventVars, clockVars>>

\* the 12 s timer, mutated: the callback does not reset the in-progress flag.
RetryTimerFire_keepsFlag(t) ==
    /\ mounted
    /\ ~GeoEffectPending
    /\ t \in timers
    /\ timers' = timers \ {t}
    /\ geoRetryTimeoutRef' = None
    /\ UNCHANGED <<rosterVars, socketVars, focusVars, env, mounted, retryCalls, geoError, me,
                   geoRetryNonce, isGeoRetrying, oneShots, watchVars, sendVars, eventVars,
                   clockVars>>

\* the 12 s timer set by retryGeolocation fires
RetryTimerFire(t) ==
    /\ mounted
    /\ ~GeoEffectPending
    /\ t \in timers
    /\ timers' = timers \ {t}
    /\ isGeoRetrying' = FALSE
    /\ geoRetryTimeoutRef' = None
    /\ UNCHANGED <<rosterVars, socketVars, focusVars, env, mounted, retryCalls, geoError, me, geoRetryNonce,
                   oneShots, watchVars, sendVars, eventVars, clockVars>>

\* the component is torn down, mutated: the geolocation effect's cleanup is missing.
Unmount_keepsWatch ==
    /\ mounted
    /\ ~GeoEffectPending
    /\ mounted' = FALSE
    /\ timers' = IF geoRetryTimeoutRef = None THEN timers
                 ELSE timers \ {geoRetryTimeoutRef[1]}
    /\ UNCHANGED <<rosterVars, socketVars, focusVars, env, retryCalls, geoError, me,
                   geoRetryNonce,
                   isGeoRetrying, geoRetryTimeoutRef, oneShots, watchVars, sendVars,
                   eventVars, clockVars>>

\* The component is torn down and the cleanups of its effects run: the geolocation
\* effect's `if (watchId !== -1) clearWatch(watchId)` and the teardown effect's
\* `if (geoRetryTimeoutRef.current !== null) clearTimeout(geoRetryTimeoutRef.current)`.
\* The state updates of callbacks that arrive later are dropped by React; the model
\* ends a component's life here.
Unmount ==
    /\ mounted
    /\ ~GeoEffectPending
    /\ mounted' = FALSE
    /\ activeWatches' = IF watchId # NoWatch THEN ClearWatch(activeWatches, watchId)
                        ELSE activeWatches
    /\ timers' = IF geoRetryTimeoutRef = None THEN timers
                 ELSE timers \ {geoRetryTimeoutRef[1]}
    /\ UNCHANGED <<rosterVars, socketVars, focusVars, env, retryCalls, geoError, me,
                   geoRetryNonce,
                   isGeoRetrying, geoRetryTimeoutRef, oneShots, geoEffectDep, watchId,
                   fallbackMode, nextWatchId, downgrades, sendVars, eventVars, clockVars>>

\* ------------------------------------------------------- specifications

\* The endpoint is resolved for a configured value and a page address, and the
\* socket connects and disconnects.
NextUrl ==
    \/ CreateSocket
    \/ \E id \in FocusIds : Connect(id)
    \/ Disconnect

SpecUrl == InitUrl /\ [][NextUrl]_vars

NextRoster ==
    \/ \E payload \in OrderPayloads : UsersUpdate(payload)
    \/ \E payload \in NonArrayPayloads : UsersUpdateDiscard(payload)
    \/ ReconcileEffect

SpecRoster == Init /\ [][NextRoster]_vars

\* The focus handlers, the roster they take participants from, the connection
\* identity and the clock; no focus handler reads the Display Order.
NextFocus ==
    \/ \E payload \in FocusPayloads : UsersUpdate(payload)
    \/ \E id \in FocusIds : Connect(id)
    \/ Disconnect
    \/ \E i \in 1..Len(users) : FocusOnUser(users[i])
    \/ FocusEffect
    \/ \E z \in UserZooms : ViewportChange(DefaultCenter, z)
    \/ ViewportRotate(UserBearing, UserPitch)
    \/ \E d \in FocusTickDeltas : Tick(d)

SpecFocus == Init /\ [][NextFocus]_vars

\* A session: roster snapshots and malformed payloads, the reconciliation, connection
\* events, selections and the map's reaction, and the position watch with samples and
\* a permission error; the clock stands still.
NextSession ==
    \/ \E payload \in SessionPayloads : UsersUpdate(payload)
    \/ \E payload \in NonArrayPayloads : UsersUpdateDiscard(payload)
    \/ ReconcileEffect
    \/ \E id \in FocusIds : Connect(id)
    \/ Disconnect
    \/ \E i \in 1..Len(users) : FocusOnUser(users[i])
    \/ FocusEffect
    \/ GeoEffect
    \/ \E w \in activeWatches, pos \in Positions : WatchSuccess(w, pos)
    \/ \E w \in activeWatches : WatchError(w, PermissionDenied)

SpecSession == Init /\ [][NextSession]_vars

\* The position every sample of the retry cycle carries, and the errors it draws: one
\* that ends a retry at once and the timeout that restarts the watch.
RetrySample == 1
RetryErrorCodes == {PermissionDenied, Timeout}

\* The retry cycle: retryGeolocation is invoked whenever its button is rendered, also
\* while a retry is in progress (the handler's own guard is what stops it then). The
\* effect runs once its dependency has changed and a timer that was set fires: React
\* and the browser schedule both; no position result is promised.
NextRetry ==
    \/ GeoEffect
    \/ \E w \in activeWatches : WatchSuccess(w, RetrySample)
    \/ \E w \in activeWatches, code \in RetryErrorCodes : WatchError(w, code)
    \/ geoRetryNonce < MaxRetries /\ RetryButtonRendered /\ RetryGeolocation
    \/ \E r \in oneShots : OneShotSuccess(r, RetrySample)
    \/ \E r \in oneShots, code \in RetryErrorCodes : OneShotError(r, code)
    \/ \E r \in oneShots, blocked \in BOOLEAN : OneShotErrorResume(r, blocked)
    \/ \E t \in timers : RetryTimerFire(t)

SpecRetry ==
    /\ Init
    /\ [][NextRetry]_vars
    /\ WF_vars(GeoEffect)
    /\ WF_vars(\E t \in timers : RetryTimerFire(t))

\* The geolocation handlers with every error code, on any platform, all within one
\* throttle window (the clock stands still).
NextGeo ==
    \/ GeoEffect
    \/ \E w \in activeWatches, pos \in Positions : WatchSuccess(w, pos)
    \/ \E w \in activeWatches, code \in ErrorCodes : WatchError(w, code)
    \/ geoRetryNonce < MaxRetries /\ RetryButtonEnabled /\ RetryGeolocation
    \/ \E r \in oneShots, pos \in Positions : OneShotSuccess(r, pos)
    \/ \E r \in oneShots, code \in ErrorCodes : OneShotError(r, code)
    \/ \E r \in oneShots, blocked \in BOOLEAN : OneShotErrorResume(r, blocked)
    \/ \E t \in timers : RetryTimerFire(t)
    \/ Unmount

SpecGeo == InitAnyEnv /\ [][NextGeo]_vars

\* The geolocation handlers with a running clock; the watch fails by timeout and the
\* one-shot request by permission denied.
NextThrottle ==
    \/ GeoEffect
    \/ \E w \in activeWatches, pos \in Positions : WatchSuccess(w, pos)
    \/ \E w \in activeWatches : WatchError(w, Timeout)
    \/ geoRetryNonce < MaxThrottleRetries /\ RetryButtonEnabled /\ RetryGeolocation
    \/ \E r \in oneShots, pos \in Positions : OneShotSuccess(r, pos)
    \/ \E r \in oneShots : OneShotError(r, PermissionDenied)
    \/ \E r \in oneShots, blocked \in BOOLEAN : OneShotErrorResume(r, blocked)
    \/ \E t \in timers : RetryTimerFire(t)
    \/ \E d \in TickDeltas : Tick(d)

SpecThrottle == Init /\ [][NextThrottle]_vars

\* ------------------------------------------------------- claims: helpers

Range(s) == {s[i] : i \in 1..Len(s)}

\* index of the first occurrence of x in s
FirstIndex(s, x) == CHOOSE i \in 1..Len(s) : s[i] = x /\ \A j \in 1..(i - 1) : s[j] # x

IdSeq(us) == [i \in 1..Len(us) |-> us[i].id]

Last(s) == s[Len(s)]

\* ------------------------------------------------ claims: Display Order

\* C1: once reconciliation has run for the stored snapshot, the Display Order
\* holds exactly the ids of that snapshot, each exactly once.
C1_OrderIsRoster ==
    ~orderPending => /\ Range(userOrder) = IdsOf(users)
                     /\ IsDuplicateFree(userOrder)

\* a reconciled snapshot that lists an id twice, after one that dropped an id
C1_Witness ==
    /\ ~orderPending
    /\ ~IsDuplicateFree(IdSeq(users))
    /\ Len(userOrder) >= 2
    /\ Range(prevOrder) \ IdsOf(users) # {}

\* C2: reconciliation keeps the relative order of the ids that are in both the
\* previous order and the new roster, puts every new id after all retained ids,
\* in the order of first appearance in the snapshot; [A,B,C] with {B,C,D} gives
\* [B,C,D] and [A,B,C] with {A,B,C,D} gives [A,B,C,D].
C2_StableOrder ==
    ~orderPending =>
        LET retained == Range(prevOrder) \cap IdsOf(users)
            added == IdsOf(users) \ Range(prevOrder)
        IN /\ \A a, b \in retained :
                  FirstIndex(prevOrder, a) < FirstIndex(prevOrder, b)
                      => FirstIndex(userOrder, a) < FirstIndex(userOrder, b)
           /\ \A a \in retained, b \in added :
                  FirstIndex(userOrder, a) < FirstIndex(userOrder, b)
           /\ \A a, b \in added :
                  FirstIndex(IdSeq(users), a) < FirstIndex(IdSeq(users), b)
                      => FirstIndex(userOrder, a) < FirstIndex(userOrder, b)
           /\ (prevOrder = <<"A", "B", "C">> /\ IdsOf(users) = {"B", "C", "D"})
                  => userOrder = <<"B", "C", "D">>
           /\ (prevOrder = <<"A", "B", "C">> /\ IdsOf(users) = {"A", "B", "C", "D"})
                  => userOrder = <<"A", "B", "C", "D">>

\* previous order [A,B,C] reconciled with a roster {B,C,D} that lists D first
C2_Witness ==
    /\ ~orderPending
    /\ prevOrder = <<"A", "B", "C">>
    /\ IdSeq(users) = <<"D", "C", "B">>
    /\ userOrder = <<"B", "C", "D">>

\* C3: reconciling the stored snapshot a second time gives the Display Order the
\* first reconciliation gave.
C3_Idempotent ==
    ~orderPending => Reconcile(userOrder, users) = userOrder

\* a first reconciliation that changed the order, for a snapshot with a repeated id
C3_Witness ==
    /\ ~orderPending
    /\ prevOrder # userOrder
    /\ ~IsDuplicateFree(IdSeq(users))
    /\ Len(userOrder) >= 2

\* ---------------------------------------------------- claims: throttle

\* a geolocation result of the given source and kind is delivered in this step
DeliveryStep(src, kind) ==
    /\ delivered' # delivered
    /\ lastEvent'.src = src
    /\ lastEvent'.kind = kind

\* the clock read of the last transmitted update (0: none yet, as lastSentAt starts)
LastSentTime == IF sent = <<>> THEN 0 ELSE Last(sent).at

\* C4: two consecutive location:update emissions are at least 2000 ms apart by the
\* clock read when each is handled, after any samples and retries; a sample handled
\* less than 2000 ms after the last emission is not transmitted, one handled 2000 ms
\* or more after it is.
C4_Throttle ==
    [][/\ sent' # sent =>
            /\ Len(sent') = Len(sent) + 1
            /\ SubSeq(sent', 1, Len(sent)) = sent
            /\ Last(sent').at = now
            /\ sent # <<>> => Last(sent').at - Last(sent).at >= ThrottleMs
       /\ (DeliveryStep("watch", "success") \/ DeliveryStep("oneShot", "success")) =>
            (sent' # sent <=> now - LastSentTime >= ThrottleMs)
      ]_vars

\* two updates transmitted, a retry made, and a later sample held back by the throttle
C4_Witness ==
    /\ Len(sent) >= 2
    /\ geoRetryNonce >= 1
    /\ lastEvent.kind = "success"
    /\ now - Last(sent).at = 500
    /\ me # Some(Last(sent).pos)

\* C5 as stated: the position of the retry's one-shot request is transmitted whenever
\* the request succeeds, whatever the time since the last transmitted update.
C5_OneShotBypassesThrottle ==
    [][DeliveryStep("oneShot", "success") =>
           sent' = Append(sent, [at |-> now, pos |-> me'[1]])]_vars

\* C5 amended: the position of the retry's one-shot request goes through the same
\* 2000 ms throttle as the watch's samples: it becomes the local position and clears
\* the error, and it is transmitted exactly when at least 2000 ms have passed since
\* the last transmitted update.
C5_OneShotThrottled ==
    [][DeliveryStep("oneShot", "success") =>
           /\ me' # None
           /\ geoError' = Null
           /\ IF now - LastSentTime >= ThrottleMs
              THEN sent' = Append(sent, [at |-> now, pos |-> me'[1]])
              ELSE sent' = sent
      ]_vars

\* a one-shot position that was held back: it is the local position, not the last sent
C5_Witness ==
    /\ lastEvent.src = "oneShot"
    /\ lastEvent.kind = "success"
    /\ sent # <<>>
    /\ now - Last(sent).at < ThrottleMs
    /\ me # Some(Last(sent).pos)

\* ------------------------------------------------ claims: accuracy tiers

\* the watch error callback is delivered error `code` in this step
WatchErrorStep(code) ==
    /\ DeliveryStep("watch", "error")
    /\ lastEvent'.code = code

\* the current activation's watch runs with the high-accuracy / the fallback options
InHighTier == \E w \in activeWatches : w.id = watchId /\ w.enableHighAccuracy
InFallbackTier == \E w \in activeWatches : w.id = watchId /\ ~w.enableHighAccuracy

\* the messages of geolocationErrorMessage
ErrorMessageOf(code) ==
    CASE code = 1 -> "denied" [] code = 2 -> "unavailable" [] code = 3 -> "timeout"

\* C6: a timeout (code 3) in the high-accuracy tier releases the watch and restarts
\* observation with (low accuracy, 30 s timeout, 15 s maximum age), showing the
\* fallback notice and not the timeout error; a timeout in the fallback tier shows
\* the timeout error and leaves the watch as it is.
C6_TimeoutFallback ==
    [][/\ (WatchErrorStep(3) /\ InHighTier) =>
             /\ watchId' # watchId
             /\ activeWatches' = {[id |-> watchId', enableHighAccuracy |-> FALSE,
                                   timeout |-> 30000, maximumAge |-> 15000]}
             /\ geoError' = "fallbackNotice"
             /\ UNCHANGED <<isGeoRetrying, timers, geoRetryTimeoutRef>>
       /\ (WatchErrorStep(3) /\ InFallbackTier) =>
             /\ geoError' = "timeout"
             /\ UNCHANGED <<activeWatches, watchId, fallbackMode>>
      ]_vars

\* a second consecutive timeout, received in the fallback tier
C6_Witness ==
    /\ lastEvent = [src |-> "watch", kind |-> "error", code |-> 3, pos |-> 0]
    /\ downgrades = 1
    /\ InFallbackTier
    /\ geoError = "timeout"

\* C7: within one activation the downgrade happens at most once and only on a
\* timeout in the high-accuracy tier; every other error is reported with its
\* message and changes neither the watch nor its options.
C7_SingleDowngrade ==
    [][\A code \in ErrorCodes : WatchErrorStep(code) =>
           /\ <<activeWatches, watchId, fallbackMode>>' # <<activeWatches, watchId, fallbackMode>>
                 => code = 3 /\ InHighTier /\ downgrades = 0
           /\ ~(code = 3 /\ InHighTier)
                 => /\ geoError' = ErrorMessageOf(code)
                    /\ UNCHANGED <<activeWatches, watchId, fallbackMode>>
      ]_vars

\* permission denied arrives after the activation has downgraded once
C7_Witness ==
    /\ lastEvent = [src |-> "watch", kind |-> "error", code |-> 1, pos |-> 0]
    /\ downgrades = 1
    /\ InFallbackTier
    /\ geoError = "denied"

\* C8: without geolocation capability or outside a secure context the error is set
\* from the start and stays set, no watch and no one-shot request is ever started,
\* and no location:update is ever emitted.
C8_NoObservation ==
    env # "ok" =>
        /\ geoError = (IF env = "unsupported" THEN "unsupported" ELSE "insecure")
        /\ activeWatches = {}
        /\ watchId = NoWatch
        /\ oneShots = {}
        /\ timers = {}
        /\ sent = <<>>
        /\ me = None

\* the geolocation effect has run in an insecure context
C8_Witness ==
    /\ env = "insecure"
    /\ geoEffectDep = Some(0)

\* ------------------------------------------------------- claims: focus

\* C9: focusOnUser with the participant whose id is socket.id emits no Focus Target
\* and leaves focusedUserId and mapFocusTarget as they are.
C9_SelfSelectNoOp ==
    [][(selectCalls' # selectCalls /\ lastSelectId' = socketId) =>
           UNCHANGED <<focusedUserId, mapFocusTarget, emitted>>]_vars

\* the local participant was selected while another participant is focused
C9_Witness ==
    /\ selectCalls > emitted
    /\ lastSelectId = socketId
    /\ focusedUserId # Null
    /\ focusedUserId # socketId

\* C10 as stated: two successive selections of a non-local participant give Focus
\* Targets with distinct keys, and the map recenters once for each selection.
C10_DistinctKeys ==
    [][/\ (emitted' # emitted /\ mapFocusTarget # None) =>
              mapFocusTarget'[1].key # mapFocusTarget[1].key
       /\ (KeyOf(mapFocusTarget') = focusDepKey') => recenters' = emitted'
      ]_vars

\* C12: after every sequence of users:update events the held roster is the most
\* recently received array payload (the empty roster before the first one), whatever
\* was held before and whatever non-array payloads came in between; so the ids held
\* are exactly the ids of that snapshot.
C12_LatestSnapshot ==
    /\ lastArray = None => users = <<>>
    /\ lastArray # None => /\ users = lastArray[1]
                           /\ IdsOf(users) = IdsOf(lastArray[1])

\* a snapshot that omits a participant of the Display Order built from an earlier
\* snapshot is held, and a non-array payload has come in after it
C12_Witness ==
    /\ lastArray # None
    /\ ~lastWasArray
    /\ orderPending
    /\ Len(users) >= 1
    /\ Range(userOrder) \ IdsOf(users) # {}

\* ids of the platform watches in a set of watches
WatchIds(watches) == {w.id : w \in watches}

\* a step that tears an activation down: the component unmounts, or the geolocation
\* effect runs again and cleans the previous run up
ActivationTeardownStep ==
    \/ mounted /\ ~mounted'
    \/ geoEffectDep # None /\ geoEffectDep' # geoEffectDep

\* C14: tearing an activation down releases its platform watch, in the high-accuracy
\* tier and after the restart in the fallback tier alike: no watch that was active
\* before the teardown is active after it, and after the component's teardown no
\* watch is active at all.
C14_TeardownReleasesWatch ==
    [][ActivationTeardownStep
        => /\ WatchIds(activeWatches') \cap WatchIds(activeWatches) = {}
           /\ ~mounted' => activeWatches' = {}]_vars

\* the component was torn down after the watch had restarted in the fallback tier
C14_Witness ==
    /\ ~mounted
    /\ fallbackMode
    /\ downgrades = 1
    /\ watchId = nextWatchId - 1
    /\ nextWatchId >= 3
    /\ activeWatches = {}

\* C15: once teardown has run, no retry timer set by retryGeolocation is pending.
C15_NoTimerAfterTeardown == ~mounted => timers = {}

\* C20: at most one platform watch is active at any time, through activation,
\* fallback restart, manual retry and teardown.
C20_SingleWatch == Cardinality(activeWatches) <= 1

\* a retry re-ran the activation and its watch restarted in the fallback tier: the
\* fourth watch is the only one active
C20_Witness ==
    /\ geoRetryNonce >= 1
    /\ geoEffectDep = Some(geoRetryNonce)
    /\ fallbackMode
    /\ nextWatchId >= 5
    /\ WatchIds(activeWatches) = {nextWatchId - 1}

\* C17: the focus transition of the Map Surface sets the camera center to the
\* target's coordinates and the zoom to the larger of the current zoom and 15, so
\* the zoom is never lowered, and it leaves bearing and pitch as they were.
C17_FocusTransition ==
    [][recenters' # recenters
        => /\ viewport'.center = mapFocusTarget[1].pos
           /\ viewport'.zoom = (IF viewport.zoom >= 15 THEN viewport.zoom ELSE 15)
           /\ viewport'.zoom >= viewport.zoom
           /\ viewport'.bearing = viewport.bearing
           /\ viewport'.pitch = viewport.pitch]_vars

\* the map was recentred on a participant while zoomed in to 17, rotated and tilted
C17_Witness ==
    /\ recenters >= 1
    /\ ~FocusEffectPending
    /\ viewport.center \in Positions
    /\ viewport.zoom = 17
    /\ viewport.bearing = UserBearing
    /\ viewport.pitch = UserPitch

\* C11: a users:update payload that is not an array is discarded: the step that
\* receives it leaves the roster, the Display Order (and whether its reconciliation
\* is due), the focus state and the local position as they were.
C11_NonArrayDiscarded ==
    [][lastWasArray /\ ~lastWasArray'
        => UNCHANGED <<users, userOrder, orderPending, focusedUserId, mapFocusTarget, me>>]_vars

\* a non-array payload came in while a roster, a Display Order, a focus and a local
\* position were held
C11_Witness ==
    /\ ~lastWasArray
    /\ Len(users) >= 1
    /\ userOrder = IdSeq(users)
    /\ focusedUserId # Null
    /\ mapFocusTarget # None
    /\ me # None

\* a step that delivers a socket "connect" or "disconnect" event
ConnectionStep == socketId' # socketId \/ isSocketConnected' # isSocketConnected

\* C13: a connect or disconnect event sets the connection indicator (true on connect,
\* false on disconnect) and changes nothing else of the roster, the Display Order, the
\* local position, the geolocation error and the focus state.
C13_ConnectionFrame ==
    [][ConnectionStep
        => /\ isSocketConnected' = (socketId' # Null)
           /\ UNCHANGED <<users, userOrder, orderPending, me, geoError,
                          focusedUserId, mapFocusTarget>>]_vars

\* the connection was re-established, under the identity of the participant that
\* was focused before, while a roster, a position and a geolocation error were held
C13_Witness ==
    /\ isSocketConnected
    /\ socketId = focusedUserId
    /\ Len(users) >= 1
    /\ userOrder = IdSeq(users)
    /\ me # None
    /\ geoError # Null

\* C18: nothing clears the focus: focusedUserId and the Focus Target change only in a
\* step that selects a participant other than the local one, and focusedUserId is
\* then that participant; roster snapshots, position samples and connection events
\* leave both as they were.
C18_FocusPersists ==
    [][focusedUserId' # focusedUserId \/ mapFocusTarget' # mapFocusTarget
        => /\ selectCalls' # selectCalls
           /\ lastSelectId' # socketId
           /\ focusedUserId' = lastSelectId']_vars

\* the focused participant is absent from the roster held and from its Display
\* Order, a position sample has arrived and the connection has changed since
C18_Witness ==
    /\ focusedUserId # Null
    /\ mapFocusTarget # None
    /\ focusedUserId \notin IdsOf(users)
    /\ ~orderPending
    /\ focusedUserId \notin Range(userOrder)
    /\ me # None
    /\ isSocketConnected

\* C19: every successful sample of the watch becomes the local position, transmitted
\* or not: a sample handled 2000 ms or more after the last transmission is
\* transmitted at once, and a sample suppressed by the throttle still becomes the
\* local position while lastSentAt and the transmitted updates stay as they were.
C19_SampleUpdatesMe ==
    [][DeliveryStep("watch", "success") =>
           /\ me' = Some(lastEvent'.pos)
           /\ IF now - lastSentAt >= 2000
              THEN /\ lastSentAt' = now
                   /\ sent' = Append(sent, [at |-> now, pos |-> lastEvent'.pos])
              ELSE /\ lastSentAt' = lastSentAt
                   /\ sent' = sent
      ]_vars

\* a sample of the watch was suppressed by the throttle: it is the local position,
\* and the update transmitted last carries another position
C19_Witness ==
    /\ lastEvent.src = "watch"
    /\ lastEvent.kind = "success"
    /\ sent # <<>>
    /\ lastSentAt = Last(sent).at
    /\ now - lastSentAt < 2000
    /\ me = Some(lastEvent.pos)
    /\ lastEvent.pos # Last(sent).pos

\* ------------------------------------------- claims: endpoint resolution

\* the addresses the claim counts as loopback
LoopbackTexts == {"localhost", "127.0.0.1", "::1"}

\* C16 as stated: the resolved endpoint is the page's origin when nothing is
\* configured; the page's origin when the configured URL's host is loopback and
\* the page's host is not; the configured URL when its host is not loopback or both
\* hosts are loopback; and the configured string itself when it does not parse.
C16_EndpointResolution ==
    socketUrl # None =>
        LET result == socketUrl[1]
        IN IF cfgUrl = None \/ cfgUrl[1].form = "blank"
           THEN result = Origin(page)
           ELSE IF cfgUrl[1].form = "bare"
           THEN result = BareText(cfgUrl[1].addr)
           ELSE IF cfgUrl[1].addr.text \in LoopbackTexts /\ page.text \notin LoopbackTexts
           THEN result = Origin(page)
           ELSE result = UrlText(cfgUrl[1].addr) \o <<"/">>

\* ------------------------------------------- claims: displayed list

\* the number of occurrences of x in s
Count(s, x) == Cardinality({i \in 1..Len(s) : s[i] = x})

\* a and b hold the same elements the same number of times
IsPermutationOf(a, b) ==
    /\ Len(a) = Len(b)
    /\ \A x \in Range(a) \cup Range(b) : Count(a, x) = Count(b, x)

\* C21: when the ids of the roster are unique, the displayed list is a permutation of
\* the roster in every state, also while a stored snapshot is not yet reconciled;
\* the participants whose ids the Display Order holds come first, in its order, and
\* those it does not hold follow them in snapshot order.
C21_DisplayedIsPermutation ==
    IsDuplicateFree(IdSeq(users)) =>
        LET shown == OrderedUsers(users, userOrder)
            known == SelectSeq(IdSeq(shown), LAMBDA id : id \in Range(userOrder))
            fresh == SelectSeq(IdSeq(shown), LAMBDA id : id \notin Range(userOrder))
        IN /\ IsPermutationOf(shown, users)
           /\ IdSeq(shown) = known \o fresh
           /\ known = SelectSeq(userOrder, LAMBDA id : id \in IdsOf(users))
           /\ fresh = SelectSeq(IdSeq(users), LAMBDA id : id \notin Range(userOrder))

\* a snapshot of unique ids is stored and not yet reconciled: it brings two ids the
\* Display Order does not hold, keeps one it holds out of order, and omits another
C21_Witness ==
    /\ orderPending
    /\ IsDuplicateFree(IdSeq(users))
    /\ Cardinality(IdsOf(users) \ Range(userOrder)) >= 2
    /\ Range(userOrder) \cap IdsOf(users) # {}
    /\ Range(userOrder) \ IdsOf(users) # {}
    /\ users[1].id \notin Range(userOrder)
    /\ OrderedUsers(users, userOrder) # users

\* ------------------------------------------------- claims: retry cycle

\* a step that invokes retryGeolocation
RetryInvocationStep == retryCalls' # retryCalls

\* C22: a retry in progress eventually ends; the in-progress flag falls only in a
\* step that delivers a position result or an error, resumes the one-shot request's
\* error handler, or fires a timer; and an invocation of retryGeolocation while the
\* flag is true starts no one-shot request and no timer and changes nothing else of
\* the retry.
C22_RetryEnds ==
    /\ isGeoRetrying ~> ~isGeoRetrying
    /\ [][isGeoRetrying /\ ~isGeoRetrying'
            => \/ delivered' # delivered
               \/ oneShots' # oneShots
               \/ timers' # timers]_vars
    /\ [][RetryInvocationStep /\ isGeoRetrying
            => UNCHANGED <<oneShots, timers, geoRetryTimeoutRef, geoRetryNonce,
                           isGeoRetrying, geoError>>]_vars

\* a second retry is in progress after the first has ended, and retryGeolocation
\* has been invoked once more during a retry without starting anything
C22_Witness ==
    /\ isGeoRetrying
    /\ geoRetryNonce = 2
    /\ retryCalls # geoRetryNonce % 2
    /\ geoRetryTimeoutRef = Some(2)

\* ------------------------------------------- claims: error and success

\* C23: whenever the geolocation result delivered last is a successful sample, of the
\* watch or of the one-shot request, no geolocation error is shown.
C23_NoErrorOverNewerSuccess == lastEvent.kind = "success" => geoError = Null

====
